---- MODULE Spec2Model ----
(***************************************************************************)
(* A model of rescript/get_unite.py: the UNITE retrieval pipeline.         *)
(*   _unite_get_doi        static DOI lookup                               *)
(*   _unite_get_url        metadata query, newest media url                *)
(*   _unite_get_tgz        download with size check and bounded retries    *)
(*   _unite_get_artifacts  extract '_dev' members, filter by cluster id,   *)
(*                         import taxonomy / sequence files                *)
(*   get_unite_data        the composition, under two temporary dirs       *)
(* One call is modelled per behaviour; `call` names the function called.   *)
(* Python strings are TLA+ strings; str methods are computed on them.      *)
(***************************************************************************)
EXTENDS Integers, Sequences, FiniteSets, TLC

\* ------------------------------------------------------------------ bounds
\* retries passed by a direct caller of _unite_get_tgz range over 0..MaxRetries
MaxRetries == 2
\* bytes a response body can hold, and the largest declared content-length
MaxBytes == 1
\* members of an archive
MaxMembers == 3
\* the default of the `retries` parameter
DefaultRetries == 10

\* ------------------------------------------------------ Python str helpers
Max(S) == CHOOSE x \in S : \A y \in S : y <= x
Min(S) == CHOOSE x \in S : \A y \in S : x <= y

\* positions of the one-character string c in s
Positions(s, c) == {i \in 1..Len(s) : SubSeq(s, i, i) = c}

\* `sub in s`
Contains(sub, s) ==
    \E i \in 1..(Len(s) - Len(sub) + 1) : SubSeq(s, i, i + Len(sub) - 1) = sub

\* s.endswith(suf)
EndsWith(s, suf) ==
    /\ Len(s) >= Len(suf)
    /\ SubSeq(s, Len(s) - Len(suf) + 1, Len(s)) = suf

\* os.path.basename(s): what follows the last "/"
Basename(s) ==
    LET P == Positions(s, "/")
    IN  IF P = {} THEN s ELSE SubSeq(s, Max(P) + 1, Len(s))

\* s.split(sep) for a one-character sep
RECURSIVE Split(_, _)
Split(s, sep) ==
    LET P == Positions(s, sep)
    IN  IF P = {} THEN <<s>>
        ELSE <<SubSeq(s, 1, Min(P) - 1)>> \o Split(SubSeq(s, Min(P) + 1, Len(s)), sep)

Digits == "0123456789"
DigitValue(c) == CHOOSE d \in 0..9 : SubSeq(Digits, d + 1, d + 1) = c
IsDigit(c) == \E d \in 0..9 : SubSeq(Digits, d + 1, d + 1) = c

\* str(n) for n >= 0
RECURSIVE Str(_)
Str(n) ==
    IF n < 10 THEN SubSeq(Digits, n + 1, n + 1)
    ELSE Str(n \div 10) \o SubSeq(Digits, (n % 10) + 1, (n % 10) + 1)

\* int(s) for a string of decimal digits; ParseError for anything else
ParseError == -1
RECURSIVE IntOfDigits(_, _)
IntOfDigits(s, acc) ==
    IF s = "" THEN acc
    ELSE IntOfDigits(SubSeq(s, 2, Len(s)), 10 * acc + DigitValue(SubSeq(s, 1, 1)))
PyInt(s) ==
    IF s # "" /\ \A i \in 1..Len(s) : IsDigit(SubSeq(s, i, i))
    THEN IntOfDigits(s, 0)
    ELSE ParseError

\* ------------------------------------------------------------- DOI lookup
\* Python values used as the `singletons` argument, written as their repr.
\* bool is a subclass of int: True == 1 and False == 0, with equal hashes,
\* so they are the same dict key.
PyNorm(v) == IF v = "True" THEN "1" ELSE IF v = "False" THEN "0" ELSE v
PyEq(a, b) == PyNorm(a) = PyNorm(b)

unite_dois ==
    ( "9.0" :> ( "fungi"      :> ("False" :> "10.15156/BIO/2938079" @@
                                  "True"  :> "10.15156/BIO/2938080") @@
                 "eukaryotes" :> ("False" :> "10.15156/BIO/2938081" @@
                                  "True"  :> "10.15156/BIO/2938082") ) @@
      "8.3" :> ( "fungi"      :> ("False" :> "10.15156/BIO/1264708" @@
                                  "True"  :> "10.15156/BIO/1264763") @@
                 "eukaryotes" :> ("False" :> "10.15156/BIO/1264819" @@
                                  "True"  :> "10.15156/BIO/1264861") ) @@
      "8.2" :> ( "fungi"      :> ("False" :> "10.15156/BIO/786385" @@
                                  "True"  :> "10.15156/BIO/786387") @@
                 "eukaryotes" :> ("False" :> "10.15156/BIO/786386" @@
                                  "True"  :> "10.15156/BIO/786388") ) )

\* d[k] of a dict: the stored key equal to k, if any
HasKey(d, k) == \E key \in DOMAIN d : PyEq(key, k)
GetItem(d, k) == d[CHOOSE key \in DOMAIN d : PyEq(key, k)]

\* repr() of a str key; the singletons values are written as their repr
Quoted(v) == "'" \o v \o "'"

\* unite_dois[version][taxon_group][singletons]; the KeyError carries the
\* first key that is missing, and str(ke) is its repr
\* (faulty variant: an unknown singletons value falls back to False)
_unite_get_doi_wrong_default(version, taxon_group, singletons) ==
    IF ~HasKey(unite_dois, version)
    THEN [ok |-> FALSE, doi |-> "", key |-> version, shown |-> Quoted(version)]
    ELSE IF ~HasKey(GetItem(unite_dois, version), taxon_group)
    THEN [ok |-> FALSE, doi |-> "", key |-> taxon_group,
          shown |-> Quoted(taxon_group)]
    ELSE IF ~HasKey(GetItem(GetItem(unite_dois, version), taxon_group), singletons)
    THEN [ok |-> TRUE,
          doi |-> GetItem(GetItem(unite_dois, version), taxon_group)["False"],
          key |-> "", shown |-> ""]
    ELSE [ok |-> TRUE,
          doi |-> GetItem(GetItem(GetItem(unite_dois, version), taxon_group),
                          singletons),
          key |-> "", shown |-> ""]
_unite_get_doi(version, taxon_group, singletons) ==
    IF ~HasKey(unite_dois, version)
    THEN [ok |-> FALSE, doi |-> "", key |-> version, shown |-> Quoted(version)]
    ELSE IF ~HasKey(GetItem(unite_dois, version), taxon_group)
    THEN [ok |-> FALSE, doi |-> "", key |-> taxon_group,
          shown |-> Quoted(taxon_group)]
    ELSE IF ~HasKey(GetItem(GetItem(unite_dois, version), taxon_group), singletons)
    THEN [ok |-> FALSE, doi |-> "", key |-> singletons, shown |-> singletons]
    ELSE [ok |-> TRUE,
          doi |-> GetItem(GetItem(GetItem(unite_dois, version), taxon_group),
                          singletons),
          key |-> "", shown |-> ""]

\* -------------------------------------------------------- input domains
Versions == {"9.0", "8.3", "8.2", "7.2"}
TaxonGroups == {"fungi", "eukaryotes", "bacteria"}
SingletonValues == {"False", "True", "0", "1", "None"}
\* get_unite_data is called on a part of them
PipelineVersions == {"8.2", "7.2"}
PipelineTaxonGroups == {"fungi", "bacteria"}
PipelineSingletonValues == {"False", "1", "None"}
ClusterIds == {"99", "97"}
Urls == {"https://files.plutof.ut.ee/a", "https://files.plutof.ut.ee/b"}
Statuses == {200, 404}
\* response headers: without content-length, with a decimal one, with junk
HeaderSets ==
    {<<>>, [content_length |-> "abc"]}
        \cup {[content_length |-> Str(n)] : n \in 0..MaxBytes}
\* replies of the metadata API: the request fails, the JSON has no "data",
\* or data[0].attributes.media is a list of urls
QueryReplies ==
    {[kind |-> "error", media |-> <<>>], [kind |-> "no_data", media |-> <<>>]}
        \cup {[kind |-> "json", media |-> m] :
                m \in {<<>>} \cup {<<u>> : u \in Urls}
                      \cup {<<u, v>> : u, v \in Urls}}

\* -------------------------------------------------------------- _unite_get_url
\* query_data["data"][0]["attributes"]["media"][-1]["url"]
_unite_get_url(reply) ==
    IF reply.kind = "error" THEN [ok |-> FALSE, exc |-> "ConnectionError", url |-> ""]
    ELSE IF reply.kind = "no_data" THEN [ok |-> FALSE, exc |-> "KeyError", url |-> ""]
    ELSE IF Len(reply.media) = 0 THEN [ok |-> FALSE, exc |-> "IndexError", url |-> ""]
    ELSE [ok |-> TRUE, exc |-> "", url |-> reply.media[Len(reply.media)]]

\* -------------------------------------------------------------- _unite_get_tgz
\* os.path.join(a, b)
Join(a, b) == a \o "/" \o b

\* exception classes an attempt can meet, and their base classes
Bases ==
    ( "HTTPError"       :> {"RequestException"} @@
      "ConnectionError" :> {"RequestException"} @@
      "Timeout"         :> {"RequestException"} @@
      "InvalidURL"      :> {"RequestException", "ValueError"} @@
      "RequestException" :> {"OSError"} @@
      "ValueError"      :> {"Exception"} @@
      "OSError"         :> {"Exception"} @@
      "Exception"       :> {} )
RECURSIVE IsInstance(_, _)
IsInstance(e, cls) == e = cls \/ \E b \in Bases[e] : IsInstance(b, cls)
\* requests.get does not raise for an error status (raise_for_status is
\* never called): an HTTPError reaches the handler only when something
\* below requests.get raises it (a response hook, a transport adapter)
RaisedByRequest == {"HTTPError", "ConnectionError", "Timeout", "InvalidURL"}
\* open() fails before the file is touched
RaisedByOpen == {"OSError"}
\* iter_content or f.write fails with the file truncated and partly written
RaisedByStream == {"ConnectionError", "OSError"}

\* the except clauses of the attempt: HTTPError, then ValueError
\* (faulty variant: except Exception)
HandledAny(e) == IsInstance(e, "Exception")
Handled(e) == IsInstance(e, "HTTPError") \/ IsInstance(e, "ValueError")

\* for retry in range(retries): another attempt is made
\* (faulty variant: range(retries + 1))
LoopContinuesOffByOne(attempts_made, limit) == attempts_made <= limit
LoopContinues(attempts_made, limit) == attempts_made < limit

\* response.iter_content(chunk_size=8192) over a body of n bytes: the
\* lengths of the chunks
chunk_size == 8192
RECURSIVE IterContent(_)
IterContent(n) ==
    IF n = 0 THEN <<>>
    ELSE IF n <= chunk_size THEN <<n>>
    ELSE <<chunk_size>> \o IterContent(n - chunk_size)
\* file_size after the loop of lines 91-94
RECURSIVE CountBytes(_, _)
CountBytes(chunks, size) ==
    IF chunks = <<>> THEN size
    ELSE CountBytes(Tail(chunks),
                    IF Head(chunks) > 0 THEN size + Head(chunks) ELSE size)

\* int(response.headers.get("content-length", 0))
ExpectedSize(headers) ==
    IF "content_length" \in DOMAIN headers THEN PyInt(headers.content_length) ELSE 0

\* file_size == int(...)
\* (faulty variant: file_size >= int(...))
SizeMatchesAtLeast(size, expected) == size >= expected
SizeMatches(size, expected) == size = expected

\* -------------------------------------------------------- _unite_get_artifacts
\* members an archive is made of: tar member names carry no trailing "/"
MemberPool ==
    << [name |-> "ab_cd_ef_gh_99_dev.txt",        isdir |-> FALSE],
       [name |-> "ab_cd_ef_gh_97_dev.fasta",      isdir |-> FALSE],
       [name |-> "rel/ab_cd_ef_gh_99_dev.fasta",  isdir |-> FALSE],
       [name |-> "dir_dev/README",                isdir |-> FALSE],
       [name |-> "dir_dev",                       isdir |-> TRUE],
       [name |-> "ab_cd_ef_gh_99.txt",            isdir |-> FALSE],
       [name |-> "ab_cd_ef_gh_99_dev.md",         isdir |-> FALSE],
       [name |-> "old/ab_cd_ef_gh_99_dev.txt",    isdir |-> FALSE],
       [name |-> "dir_dev/ab_cd_ef_gh_99.txt",    isdir |-> FALSE] >>

RECURSIVE SortedSeq(_)
SortedSeq(I) == IF I = {} THEN <<>> ELSE <<Min(I)>> \o SortedSeq(I \ {Min(I)})
ArchiveOf(I) == [k \in 1..Cardinality(I) |-> MemberPool[SortedSeq(I)[k]]]
Archives ==
    {ArchiveOf(I) : I \in {J \in SUBSET (1..Len(MemberPool)) :
                             Cardinality(J) <= MaxMembers}}

TarRaise(e, a) == [kind |-> "raise", exc |-> e, arg |-> a, members |-> <<>>]
\* tarfile.open(tgz_file, "r:gz") and tar.getmembers()
\* (faulty variant: a None path opens the file left in the download dir)
TarOpenOutcomesNoneUnchecked(tgz_file, disk) ==
    IF disk = "absent" THEN {TarRaise("FileNotFoundError", "")}
    ELSE IF disk = "empty" THEN {TarRaise("ReadError", "empty file")}
    ELSE {TarRaise("ReadError", "not a gzip file")}
            \cup {[kind |-> "tar", exc |-> "", arg |-> "", members |-> a] :
                    a \in Archives}
TarOpenOutcomes(tgz_file, disk) ==
    IF tgz_file = "None" THEN {TarRaise("ValueError", "nothing to open")}
    ELSE IF disk = "absent" THEN {TarRaise("FileNotFoundError", "")}
    ELSE IF disk = "empty" THEN {TarRaise("ReadError", "empty file")}
    ELSE {TarRaise("ReadError", "not a gzip file")}
            \cup {[kind |-> "tar", exc |-> "", arg |-> "", members |-> a] :
                    a \in Archives}

\* [m for m in tar.getmembers() if "_dev" in m.name]
\* (faulty variant: every member is kept)
IsSelectedAny(m) == TRUE
IsSelected(m) == Contains("_dev", m.name)
SelectMembers(tar) == SelectSeq(tar, IsSelected)

\* member.name = os.path.basename(member.name); tar.extract(member, path=tmpdirname)
Extracted(m) == [dir |-> ".", name |-> Basename(m.name), isdir |-> m.isdir]
Extract(entries, m) ==
    {e \in entries : ~(e.dir = "." /\ e.name = Basename(m.name))}
        \cup {Extracted(m)}

\* os.walk(tmpdirname): the root, then every directory below it
FilesIn(entries, d) == {e.name : e \in {x \in entries : x.dir = d /\ ~x.isdir}}
DirsIn(entries, d) == {e.name : e \in {x \in entries : x.dir = d /\ x.isdir}}
RECURSIVE SetToSeq(_)
SetToSeq(S) ==
    IF S = {} THEN <<>>
    ELSE LET x == CHOOSE y \in S : TRUE IN <<x>> \o SetToSeq(S \ {x})
WalkOrder(entries) == <<".">> \o SetToSeq(DirsIn(entries, "."))

\* f.split("_")[4]
HasNoFifthSegment(f) == Len(Split(f, "_")) < 5
FifthSegment(f) == Split(f, "_")[5]
MatchesCluster(f, cid) == FifthSegment(f) = cid

\* the two import_data calls
\* (faulty variant: .md files are imported as taxonomy too)
IsTaxonomyAnyText(f) == EndsWith(f, ".txt") \/ EndsWith(f, ".md")
IsTaxonomy(f) == EndsWith(f, ".txt")
IsSequence(f) == ~IsTaxonomy(f) /\ EndsWith(f, ".fasta")
TaxonomyHandle(fp) ==
    <<"FeatureData[Taxonomy]", fp, "HeaderlessTSVTaxonomyFormat">>
SequenceHandle(fp) ==
    <<"FeatureData[Sequence]", fp, "MixedCaseDNAFASTAFormat">>

\* ------------------------------------------------------------------ state
VARIABLES
    call,           \* the function called
    version, taxon_group, singletons, cluster_id, retries, download_path,
                    \* its arguments
    pc,             \* position in the call
    result,         \* how the call ended: [kind, exc, arg]
    stages,         \* the stages of get_unite_data completed so far
    printed,        \* the line the last step printed
    doi, url,       \* locals of get_unite_data
    net,            \* endpoints a request was sent to
    dl_dir, ex_dir, \* the two temporary directories: none / exists / removed
    disk_file,      \* unitefile.tar.gz in the download dir: absent / empty / data
    attempts,       \* iterations of the retry loop started
    response,       \* [status, headers] of the last response
    file_size,      \* bytes counted in the last attempt
    exc,            \* the exception the last attempt met ("" if none)
    tar_file_path,  \* what _unite_get_tgz returned ("" before it returns)
    archive,        \* the members of the opened tar
    members,        \* the selected members still to extract
    ex_entries,     \* what the extraction directory holds
    walk_todo,      \* directories os.walk has still to yield
    todo,           \* filtered_files still to import
    tax_results, seq_results,
    imports         \* calls of qiime2.Artifact.import_data

fetch_vars == <<attempts, response, file_size, exc>>
art_vars == <<archive, members, ex_entries, walk_todo, todo, tax_results,
              seq_results, imports>>
vars == <<call, version, taxon_group, singletons, cluster_id, retries,
          download_path, pc, result, stages, printed, doi, url, net, dl_dir,
          ex_dir, disk_file, attempts, response, file_size, exc, tar_file_path,
          archive, members, ex_entries, walk_todo, todo, tax_results,
          seq_results, imports>>

NoResult == [kind |-> "none", exc |-> "", arg |-> ""]
Raise(e, a) == [kind |-> "raise", exc |-> e, arg |-> a]
Return == [kind |-> "return", exc |-> "", arg |-> ""]
NoResponse == [status |-> 0, headers |-> <<>>]

InitGetUniteData ==
    /\ call = "get_unite_data"
    /\ version \in PipelineVersions
    /\ taxon_group \in PipelineTaxonGroups
    /\ singletons \in PipelineSingletonValues
    /\ cluster_id \in ClusterIds
    /\ retries = DefaultRetries
    /\ url = "" /\ download_path = "" /\ dl_dir = "none"
    /\ tar_file_path = "" /\ disk_file = "absent"
    /\ pc = "doi"

InitGetDoi ==
    /\ call = "_unite_get_doi"
    /\ version \in Versions
    /\ taxon_group \in TaxonGroups
    /\ singletons \in SingletonValues
    /\ cluster_id = ""
    /\ retries = DefaultRetries
    /\ url = "" /\ download_path = "" /\ dl_dir = "none"
    /\ tar_file_path = "" /\ disk_file = "absent"
    /\ pc = "doi"

\* the caller owns the download directory
InitGetTgz ==
    /\ call = "_unite_get_tgz"
    /\ version = "" /\ taxon_group = "" /\ singletons = ""
    /\ cluster_id = ""
    /\ retries \in 0..MaxRetries
    /\ url \in Urls
    /\ download_path = "dl" /\ dl_dir = "exists"
    /\ tar_file_path = "" /\ disk_file = "absent"
    /\ pc = "tgz"

InitGetArtifacts ==
    /\ call = "_unite_get_artifacts"
    /\ version = "" /\ taxon_group = "" /\ singletons = ""
    /\ cluster_id \in ClusterIds
    /\ retries = DefaultRetries
    /\ url = ""
    /\ download_path = "dl" /\ dl_dir = "exists"
    /\ tar_file_path \in {"None", Join("dl", "unitefile.tar.gz")}
    /\ disk_file \in {"absent", "data"}
    /\ pc = "artifacts"

Init ==
    /\ InitGetUniteData \/ InitGetDoi \/ InitGetTgz \/ InitGetArtifacts
    /\ result = NoResult
    /\ stages = <<>>
    /\ printed = ""
    /\ doi = ""
    /\ net = {}
    /\ ex_dir = "none"
    /\ attempts = 0
    /\ response = NoResponse
    /\ file_size = 0
    /\ exc = ""
    /\ archive = <<>>
    /\ members = <<>>
    /\ ex_entries = {}
    /\ walk_todo = <<>>
    /\ todo = {}
    /\ tax_results = <<>>
    /\ seq_results = <<>>
    /\ imports = 0

\* where an exception goes: out through the `with` scopes that are open
\* (faulty variant: mkdtemp without a with statement)
UnwindWithoutCleanup == "done"
Unwind == IF ex_dir = "exists" THEN "exit_ex"
          ELSE IF call = "get_unite_data" /\ dl_dir = "exists" THEN "exit_dl"
          ELSE "done"

\* line 180 (and a direct call of _unite_get_doi)
GetDoi ==
    /\ pc = "doi"
    /\ LET r == _unite_get_doi(version, taxon_group, singletons)
       IN  IF r.ok
           THEN /\ doi' = r.doi
                /\ stages' = Append(stages, "4.1")
                /\ printed' = ""
                /\ IF call = "_unite_get_doi"
                   THEN pc' = "done" /\ result' = Return
                   ELSE pc' = "url" /\ result' = result
           ELSE /\ printed' = "Unknown DOI for this value: " \o r.shown
                /\ result' = Raise("KeyError", r.key)
                /\ pc' = "done"
                /\ UNCHANGED <<doi, stages>>
    /\ UNCHANGED <<call, version, taxon_group, singletons, cluster_id, retries,
                   download_path, url, net, dl_dir, ex_dir, disk_file,
                   fetch_vars, tar_file_path, art_vars>>

\* line 181
GetUrl ==
    /\ pc = "url"
    /\ net' = net \cup {"api.plutof.ut.ee"}
    /\ \E reply \in QueryReplies :
         LET r == _unite_get_url(reply)
         IN  IF r.ok
             THEN /\ url' = r.url
                  /\ stages' = Append(stages, "4.2")
                  /\ pc' = "mkdtemp"
                  /\ result' = result
             ELSE /\ result' = Raise(r.exc, "")
                  /\ pc' = "done"
                  /\ UNCHANGED <<url, stages>>
    /\ printed' = ""
    /\ UNCHANGED <<call, version, taxon_group, singletons, cluster_id, retries,
                   download_path, doi, dl_dir, ex_dir, disk_file, fetch_vars,
                   tar_file_path, art_vars>>

\* lines 182-184: the download directory is created, _unite_get_tgz is called
EnterDownloadScope ==
    /\ pc = "mkdtemp"
    /\ dl_dir' = "exists"
    /\ download_path' = "tmp_dl"
    /\ printed' = "Temporary directory: tmp_dl"
    /\ pc' = "tgz"
    /\ UNCHANGED <<call, version, taxon_group, singletons, cluster_id, retries,
                   result, stages, doi, url, net, ex_dir, disk_file, fetch_vars,
                   tar_file_path, art_vars>>

\* lines 83-99, 107-108: one iteration in which the response is streamed
\* to its end
AttemptStreams ==
    /\ pc = "tgz"
    /\ LoopContinues(attempts, retries)
    /\ \E status \in Statuses, headers \in HeaderSets, n \in 0..MaxBytes :
         /\ response' = [status |-> status, headers |-> headers]
         /\ file_size' = CountBytes(IterContent(n), 0)
         /\ disk_file' = IF n = 0 THEN "empty" ELSE "data"
         /\ IF /\ ExpectedSize(headers) # ParseError
               /\ SizeMatches(file_size', ExpectedSize(headers))
            THEN /\ tar_file_path' = Join(download_path, "unitefile.tar.gz")
                 /\ pc' = "tgz_returned"
                 /\ exc' = ""
                 /\ printed' = ""
            ELSE /\ exc' = "ValueError"
                 /\ printed' = "File incomplete, on try " \o Str(attempts)
                 /\ pc' = "tgz"
                 /\ UNCHANGED tar_file_path
    /\ attempts' = attempts + 1
    /\ net' = net \cup {"download"}
    /\ UNCHANGED <<call, version, taxon_group, singletons, cluster_id, retries,
                   download_path, result, stages, doi, url, dl_dir, ex_dir,
                   art_vars>>

\* lines 83-94, 100-108: one iteration in which requests.get, open, the
\* stream or a write raises
AttemptRaises ==
    /\ pc = "tgz"
    /\ LoopContinues(attempts, retries)
    /\ \E e \in RaisedByRequest \cup RaisedByOpen \cup RaisedByStream :
         /\ \/ /\ e \in RaisedByRequest
               /\ UNCHANGED <<response, disk_file>>
               /\ file_size' = 0
            \/ /\ e \in RaisedByOpen
               /\ \E status \in Statuses, headers \in HeaderSets :
                    response' = [status |-> status, headers |-> headers]
               /\ UNCHANGED disk_file
               /\ file_size' = 0
            \/ /\ e \in RaisedByStream
               /\ \E status \in Statuses, headers \in HeaderSets, n \in 0..MaxBytes :
                    /\ response' = [status |-> status, headers |-> headers]
                    /\ file_size' = CountBytes(IterContent(n), 0)
                    /\ disk_file' = IF n = 0 THEN "empty" ELSE "data"
         /\ exc' = e
         /\ IF Handled(e)
            THEN /\ pc' = "tgz"
                 /\ result' = result
                 /\ IF IsInstance(e, "HTTPError")
                    THEN \E code \in {c \in Statuses : c >= 400} :
                           printed' = "Request failed with code " \o Str(code)
                                        \o ", on try " \o Str(attempts)
                    ELSE printed' = "File incomplete, on try " \o Str(attempts)
            ELSE /\ pc' = Unwind
                 /\ result' = Raise(e, "")
                 /\ printed' = ""
    /\ attempts' = attempts + 1
    /\ net' = net \cup {"download"}
    /\ UNCHANGED <<call, version, taxon_group, singletons, cluster_id, retries,
                   download_path, stages, doi, url, dl_dir, ex_dir,
                   tar_file_path, art_vars>>

\* the loop ends without a return: the function returns None
TgzExhausted ==
    /\ pc = "tgz"
    /\ ~LoopContinues(attempts, retries)
    /\ tar_file_path' = "None"
    /\ pc' = "tgz_returned"
    /\ printed' = ""
    /\ UNCHANGED <<call, version, taxon_group, singletons, cluster_id, retries,
                   download_path, result, stages, doi, url, net, dl_dir, ex_dir,
                   disk_file, fetch_vars, art_vars>>

\* _unite_get_tgz has returned: its locals are gone
AfterTgz ==
    /\ pc = "tgz_returned"
    /\ attempts' = 0 /\ response' = NoResponse /\ file_size' = 0 /\ exc' = ""
    /\ stages' = IF tar_file_path # "None" THEN Append(stages, "4.3") ELSE stages
    /\ IF call = "_unite_get_tgz"
       THEN pc' = "done" /\ result' = Return
       ELSE pc' = "artifacts" /\ result' = result
    /\ printed' = ""
    /\ UNCHANGED <<call, version, taxon_group, singletons, cluster_id, retries,
                   download_path, doi, url, net, dl_dir, ex_dir, disk_file,
                   tar_file_path, art_vars>>

\* lines 125-126: the extraction directory is created
EnterExtractionScope ==
    /\ pc = "artifacts"
    /\ ex_dir' = "exists"
    /\ printed' = "Temporary directory: tmp_ex"
    /\ pc' = "open"
    /\ UNCHANGED <<call, version, taxon_group, singletons, cluster_id, retries,
                   download_path, result, stages, doi, url, net, dl_dir,
                   disk_file, fetch_vars, tar_file_path, art_vars>>

\* line 128
OpenTar ==
    /\ pc = "open"
    /\ \E o \in TarOpenOutcomes(tar_file_path, disk_file) :
         IF o.kind = "raise"
         THEN /\ result' = Raise(o.exc, o.arg)
              /\ pc' = Unwind
              /\ UNCHANGED archive
         ELSE /\ archive' = o.members
              /\ pc' = "select"
              /\ result' = result
    /\ printed' = ""
    /\ UNCHANGED <<call, version, taxon_group, singletons, cluster_id, retries,
                   download_path, stages, doi, url, net, dl_dir, ex_dir,
                   disk_file, fetch_vars, tar_file_path, members, ex_entries,
                   walk_todo, todo, tax_results, seq_results, imports>>

\* lines 130-132
Select ==
    /\ pc = "select"
    /\ members' = SelectMembers(archive)
    /\ IF members' = <<>>
       THEN /\ result' = Raise("ValueError", "No '_dev' files found")
            /\ pc' = Unwind
       ELSE /\ pc' = "extract"
            /\ result' = result
    /\ printed' = ""
    /\ UNCHANGED <<call, version, taxon_group, singletons, cluster_id, retries,
                   download_path, stages, doi, url, net, dl_dir, ex_dir,
                   disk_file, fetch_vars, tar_file_path, archive, ex_entries,
                   walk_todo, todo, tax_results, seq_results, imports>>

\* lines 133-136: one iteration; after the last one os.walk starts
ExtractMember ==
    /\ pc = "extract"
    /\ members # <<>>
    /\ ex_entries' = Extract(ex_entries, Head(members))
    /\ members' = Tail(members)
    /\ IF members' = <<>>
       THEN pc' = "walk" /\ walk_todo' = WalkOrder(ex_entries')
       ELSE pc' = "extract" /\ walk_todo' = walk_todo
    /\ printed' = ""
    /\ UNCHANGED <<call, version, taxon_group, singletons, cluster_id, retries,
                   download_path, result, stages, doi, url, net, dl_dir, ex_dir,
                   disk_file, fetch_vars, tar_file_path, archive, todo,
                   tax_results, seq_results, imports>>

\* lines 138-146: os.walk yields a directory and its files are filtered
WalkDir ==
    /\ pc = "walk"
    /\ walk_todo # <<>>
    /\ LET files == FilesIn(ex_entries, Head(walk_todo))
       IN  IF \E f \in files : HasNoFifthSegment(f)
           THEN /\ result' = Raise("IndexError", "list index out of range")
                /\ pc' = Unwind
                /\ UNCHANGED <<todo, walk_todo>>
           ELSE LET filtered_files == {f \in files : MatchesCluster(f, cluster_id)}
                IN  IF filtered_files = {}
                    THEN /\ result' = Raise("ValueError",
                                "No files found with cluster_id = " \o cluster_id)
                         /\ pc' = Unwind
                         /\ UNCHANGED <<todo, walk_todo>>
                    ELSE /\ todo' = filtered_files
                         /\ walk_todo' = Tail(walk_todo)
                         /\ pc' = "import"
                         /\ result' = result
    /\ printed' = ""
    /\ UNCHANGED <<call, version, taxon_group, singletons, cluster_id, retries,
                   download_path, stages, doi, url, net, dl_dir, ex_dir,
                   disk_file, fetch_vars, tar_file_path, archive, members,
                   ex_entries, tax_results, seq_results, imports>>

\* lines 147-164: one filtered file, import_data returning a handle
ImportFile ==
    /\ pc = "import"
    /\ \E file \in todo :
         /\ todo' = todo \ {file}
         /\ LET fp == Join("tmp_ex", file)
            IN  IF IsTaxonomy(file)
                THEN /\ tax_results' = Append(tax_results, TaxonomyHandle(fp))
                     /\ imports' = imports + 1
                     /\ UNCHANGED seq_results
                ELSE IF IsSequence(file)
                THEN /\ seq_results' = Append(seq_results, SequenceHandle(fp))
                     /\ imports' = imports + 1
                     /\ UNCHANGED tax_results
                ELSE UNCHANGED <<tax_results, seq_results, imports>>
    /\ pc' = IF todo' = {} THEN "walk" ELSE "import"
    /\ printed' = ""
    /\ UNCHANGED <<call, version, taxon_group, singletons, cluster_id, retries,
                   download_path, result, stages, doi, url, net, dl_dir, ex_dir,
                   disk_file, fetch_vars, tar_file_path, archive, members,
                   ex_entries, walk_todo>>

\* lines 151, 159: import_data rejects the file
ImportRaises ==
    /\ pc = "import"
    /\ \E file \in todo :
         /\ IsTaxonomy(file) \/ IsSequence(file)
         /\ todo' = todo \ {file}
    /\ imports' = imports + 1
    /\ result' = Raise("ValidationError", "")
    /\ pc' = Unwind
    /\ printed' = ""
    /\ UNCHANGED <<call, version, taxon_group, singletons, cluster_id, retries,
                   download_path, stages, doi, url, net, dl_dir, ex_dir,
                   disk_file, fetch_vars, tar_file_path, archive, members,
                   ex_entries, walk_todo, tax_results, seq_results>>

\* line 165, reached when os.walk is exhausted
ReturnArtifacts ==
    /\ pc = "walk"
    /\ walk_todo = <<>>
    /\ result' = Return
    /\ stages' = Append(stages, "4.4")
    /\ pc' = "exit_ex"
    /\ printed' = ""
    /\ UNCHANGED <<call, version, taxon_group, singletons, cluster_id, retries,
                   download_path, doi, url, net, dl_dir, ex_dir, disk_file,
                   fetch_vars, tar_file_path, art_vars>>

\* TemporaryDirectory.__exit__ of line 125
ExitExtractionScope ==
    /\ pc = "exit_ex"
    /\ ex_dir' = "removed"
    /\ ex_entries' = {}
    /\ pc' = IF call = "get_unite_data" THEN "exit_dl" ELSE "done"
    /\ printed' = ""
    /\ UNCHANGED <<call, version, taxon_group, singletons, cluster_id, retries,
                   download_path, result, stages, doi, url, net, dl_dir,
                   disk_file, fetch_vars, tar_file_path, archive, members,
                   walk_todo, todo, tax_results, seq_results, imports>>

\* TemporaryDirectory.__exit__ of line 182
ExitDownloadScope ==
    /\ pc = "exit_dl"
    /\ dl_dir' = "removed"
    /\ disk_file' = "absent"
    /\ pc' = "done"
    /\ printed' = ""
    /\ UNCHANGED <<call, version, taxon_group, singletons, cluster_id, retries,
                   download_path, result, stages, doi, url, net, ex_dir,
                   fetch_vars, tar_file_path, art_vars>>

Next ==
    \/ GetDoi
    \/ GetUrl
    \/ EnterDownloadScope
    \/ AttemptStreams
    \/ AttemptRaises
    \/ TgzExhausted
    \/ AfterTgz
    \/ EnterExtractionScope
    \/ OpenTar
    \/ Select
    \/ ExtractMember
    \/ WalkDir
    \/ ImportFile
    \/ ImportRaises
    \/ ReturnArtifacts
    \/ ExitExtractionScope
    \/ ExitDownloadScope

Spec == Init /\ [][Next]_vars

\* ----------------------------------------------------------------- claims
DownloadedPath == Join(download_path, "unitefile.tar.gz")
ReturnedPath == pc = "tgz_returned" /\ tar_file_path # "None"
\* the content-length the last response declared, 0 without the header
Declared ==
    IF "content_length" \in DOMAIN response.headers
    THEN PyInt(response.headers.content_length)
    ELSE 0

\* C1: _unite_get_tgz returns a path only from an attempt that streamed to
\* its end with a byte count equal to the declared content-length (0 when
\* the header is absent); such an attempt returns at once, and no attempt
\* follows a return.
C1_PathOnlyOnExactSize ==
    /\ [](ReturnedPath =>
            /\ tar_file_path = DownloadedPath
            /\ exc = ""
            /\ attempts >= 1
            /\ Declared # ParseError
            /\ file_size = Declared)
    /\ [][(pc = "tgz" /\ attempts' = attempts + 1 /\ exc' = ""
             /\ file_size' = Declared')
          => (pc' = "tgz_returned" /\ tar_file_path' = DownloadedPath)]_vars
    /\ [][tar_file_path # "" => attempts' <= attempts]_vars

C1_Witness ==
    /\ ReturnedPath
    /\ call = "_unite_get_tgz"
    /\ attempts = 2
    /\ file_size = 1
    /\ response.headers = [content_length |-> "1"]

\* C2: an attempt whose byte count differs from the declared content-length
\* fails without a return or an error and leaves the loop running; the
\* attempts never exceed `retries`; when the loop is exhausted, exactly
\* `retries` attempts were made, nothing is raised and None is returned.
C2_BoundedRetries ==
    /\ [](attempts <= retries)
    /\ []((pc = "tgz_returned" /\ tar_file_path = "None") =>
            (attempts = retries /\ result.kind = "none"))
    /\ []((pc = "tgz" /\ attempts < retries) => ENABLED AttemptStreams)
    /\ [][(pc = "tgz" /\ attempts' = attempts + 1 /\ exc' \in {"", "ValueError"}
             /\ file_size' # Declared')
          => (/\ pc' = "tgz"
              /\ exc' = "ValueError"
              /\ tar_file_path' = tar_file_path
              /\ result' = result)]_vars

C2_Witness ==
    /\ pc = "tgz_returned"
    /\ tar_file_path = "None"
    /\ retries = DefaultRetries
    /\ attempts = DefaultRetries
    /\ exc = "ValueError"
    /\ file_size = 0
    /\ response.headers = [content_length |-> "1"]

\* C3: the fetcher never returns a path for an attempt whose response had
\* an HTTP error status.
C3_NoPathOnHttpFailure ==
    ReturnedPath => response.status < 400

\* C4: when the fetcher yields None, get_unite_data returns no pair and
\* imports nothing, and ends with an error; when it returns a pair, the
\* stages 4.1, 4.2, 4.3, 4.4 completed in that order.
C4_NoPartialSuccess ==
    call = "get_unite_data" =>
        /\ tar_file_path = "None" =>
             /\ result.kind # "return"
             /\ imports = 0
             /\ tax_results = <<>> /\ seq_results = <<>>
             /\ pc = "done" => result.kind = "raise"
        /\ result.kind = "return" =>
             /\ stages = <<"4.1", "4.2", "4.3", "4.4">>
             /\ tar_file_path = DownloadedPath

C4_Witness ==
    /\ call = "get_unite_data"
    /\ pc = "done"
    /\ tar_file_path = "None"
    /\ result = Raise("ValueError", "nothing to open")
    /\ dl_dir = "removed"

\* C5: when _unite_get_artifacts returns, the taxonomy collection holds
\* one handle for each extracted file whose 5th "_" segment is cluster_id
\* and whose name ends in .txt, the sequence collection one for each such
\* file ending in .fasta, and nothing else; members ab_cd_ef_gh_99_dev.txt
\* and ab_cd_ef_gh_97_dev.fasta with cluster_id "99" give one taxonomy
\* record and no sequence record.
ExtractedFiles == {e.name : e \in {x \in ex_entries : ~x.isdir}}
OfCluster(f) == Len(Split(f, "_")) >= 5 /\ Split(f, "_")[5] = cluster_id
Range(q) == {q[i] : i \in 1..Len(q)}
SpecExampleArchive ==
    << [name |-> "ab_cd_ef_gh_99_dev.txt", isdir |-> FALSE],
       [name |-> "ab_cd_ef_gh_97_dev.fasta", isdir |-> FALSE] >>
C5_Classification ==
    (pc = "exit_ex" /\ result.kind = "return") =>
        /\ Range(tax_results) =
             {<<"FeatureData[Taxonomy]", Join("tmp_ex", f),
                "HeaderlessTSVTaxonomyFormat">> :
                f \in {g \in ExtractedFiles : OfCluster(g) /\ EndsWith(g, ".txt")}}
        /\ Range(seq_results) =
             {<<"FeatureData[Sequence]", Join("tmp_ex", f),
                "MixedCaseDNAFASTAFormat">> :
                f \in {g \in ExtractedFiles : OfCluster(g) /\ EndsWith(g, ".fasta")}}
        /\ Len(tax_results) = Cardinality(Range(tax_results))
        /\ Len(seq_results) = Cardinality(Range(seq_results))
        /\ imports = Len(tax_results) + Len(seq_results)
        /\ (archive = SpecExampleArchive /\ cluster_id = "99") =>
             /\ tax_results = << <<"FeatureData[Taxonomy]",
                                   "tmp_ex/ab_cd_ef_gh_99_dev.txt",
                                   "HeaderlessTSVTaxonomyFormat">> >>
             /\ seq_results = <<>>

C5_Witness ==
    /\ pc = "exit_ex"
    /\ result.kind = "return"
    /\ archive = SpecExampleArchive
    /\ cluster_id = "99"
    /\ Len(tax_results) = 1
    /\ seq_results = <<>>

\* C6: an archive with no member whose path contains "_dev" makes
\* _unite_get_artifacts fail with the "No '_dev' files found" error before
\* anything is extracted, classified or imported, and nothing is returned.
NoDevMember == \A i \in 1..Len(archive) : ~Contains("_dev", archive[i].name)
NoDevError == Raise("ValueError", "No '_dev' files found")
NothingDone ==
    /\ ex_entries = {} /\ walk_todo = <<>> /\ todo = {}
    /\ imports = 0 /\ tax_results = <<>> /\ seq_results = <<>>
C6_NoDevFailsFirst ==
    /\ []((pc = "select" /\ NoDevMember) => NothingDone)
    /\ [][(pc = "select" /\ NoDevMember)
          => (result' = NoDevError /\ NothingDone' /\ pc' = "exit_ex")]_vars
    /\ [](result = NoDevError => (NothingDone /\ NoDevMember))

C6_Witness ==
    /\ pc = "done"
    /\ result = NoDevError
    /\ archive = << [name |-> "ab_cd_ef_gh_99.txt", isdir |-> FALSE] >>
    /\ call = "get_unite_data"

\* C7: on every exit path of get_unite_data neither temporary directory
\* is left behind; the extraction directory exists only while the download
\* directory does, and is released first.
C7_WorkspacesReleased ==
    /\ [](pc = "done" =>
            /\ ex_dir # "exists"
            /\ call = "get_unite_data" => dl_dir # "exists")
    /\ [](ex_dir = "exists" => dl_dir = "exists")
    /\ [][(dl_dir = "exists" /\ dl_dir' # "exists") => ex_dir # "exists"]_vars
    /\ [][(ex_dir = "exists" /\ ex_dir' # "exists")
          => (dl_dir' = "exists" /\ ex_entries' = {})]_vars

C7_Witness ==
    /\ call = "get_unite_data"
    /\ pc = "done"
    /\ result = Raise("ValueError", "No files found with cluster_id = 99")
    /\ ex_dir = "removed"
    /\ dl_dir = "removed"

\* C8: _unite_get_doi returns the DOI stored for a triple of the table
\* ("8.2", "fungi", False gives 10.15156/BIO/786385) and raises a KeyError
\* naming the first unmatched key for any other triple; in get_unite_data
\* that happens before any request and before any temporary directory.
\* A key is in a dict when it equals a stored key, so 0 and 1 stand for
\* False and True.
DoiRows ==
    { <<"9.0", "fungi", "False", "10.15156/BIO/2938079">>,
      <<"9.0", "fungi", "True", "10.15156/BIO/2938080">>,
      <<"9.0", "eukaryotes", "False", "10.15156/BIO/2938081">>,
      <<"9.0", "eukaryotes", "True", "10.15156/BIO/2938082">>,
      <<"8.3", "fungi", "False", "10.15156/BIO/1264708">>,
      <<"8.3", "fungi", "True", "10.15156/BIO/1264763">>,
      <<"8.3", "eukaryotes", "False", "10.15156/BIO/1264819">>,
      <<"8.3", "eukaryotes", "True", "10.15156/BIO/1264861">>,
      <<"8.2", "fungi", "False", "10.15156/BIO/786385">>,
      <<"8.2", "fungi", "True", "10.15156/BIO/786387">>,
      <<"8.2", "eukaryotes", "False", "10.15156/BIO/786386">>,
      <<"8.2", "eukaryotes", "True", "10.15156/BIO/786388">> }
SingletonsKey ==
    IF singletons \in {"True", "1"} THEN "True"
    ELSE IF singletons \in {"False", "0"} THEN "False"
    ELSE singletons
RowsOfCall ==
    {r \in DoiRows : r[1] = version /\ r[2] = taxon_group /\ r[3] = SingletonsKey}
FirstUnmatchedKey ==
    IF \A r \in DoiRows : r[1] # version THEN version
    ELSE IF \A r \in DoiRows : ~(r[1] = version /\ r[2] = taxon_group)
    THEN taxon_group
    ELSE singletons
C8_DoiLookup ==
    (call \in {"get_unite_data", "_unite_get_doi"} /\ pc # "doi") =>
        IF RowsOfCall # {}
        THEN /\ \A r \in RowsOfCall : doi = r[4]
             /\ call = "_unite_get_doi" => result = Return
             /\ Len(stages) >= 1 /\ stages[1] = "4.1"
        ELSE /\ result = Raise("KeyError", FirstUnmatchedKey)
             /\ printed = "Unknown DOI for this value: " \o
                            (IF FirstUnmatchedKey = singletons
                             THEN singletons
                             ELSE "'" \o FirstUnmatchedKey \o "'")
             /\ pc = "done"
             /\ doi = ""
             /\ net = {}
             /\ dl_dir = "none" /\ ex_dir = "none"

C8_Witness ==
    /\ call = "get_unite_data"
    /\ pc = "done"
    /\ version = "8.2" /\ taxon_group = "fungi" /\ singletons = "None"
    /\ result = Raise("KeyError", "None")
    /\ net = {}

\* C9: when a selected member's base name has cluster_id as its 5th "_"
\* segment, no other selected member makes the call fail: neither an
\* IndexError nor the "No files found" error ends it.
SomeSelectedMatches ==
    \E i \in 1..Len(archive) :
        /\ Contains("_dev", archive[i].name)
        /\ ~archive[i].isdir
        /\ OfCluster(Basename(archive[i].name))
C9_OthersSilentlyExcluded ==
    (pc \in {"walk", "import", "exit_ex", "exit_dl", "done"} /\ SomeSelectedMatches)
        => /\ result.exc # "IndexError"
           /\ result # Raise("ValueError",
                             "No files found with cluster_id = " \o cluster_id)

\* C10: an attempt that meets an HTTPError or a ValueError is used up and
\* the loop goes on; any other exception leaves the loop at once and
\* reaches the caller; the fetcher ends with a path, with None after
\* `retries` attempts, or with that exception.
RetriedKinds == {"HTTPError", "ValueError", "InvalidURL"}
C10_OnlyTwoKindsRetried ==
    /\ []((pc = "tgz" /\ exc # "") => exc \in RetriedKinds)
    /\ [][(pc = "tgz" /\ attempts' = attempts + 1 /\ exc' # "") =>
            IF exc' \in RetriedKinds
            THEN pc' = "tgz" /\ result' = result /\ tar_file_path' = ""
            ELSE /\ result' = Raise(exc', "")
                 /\ pc' \notin {"tgz", "tgz_returned"}
                 /\ tar_file_path' = ""]_vars
    /\ [][(pc = "tgz" /\ pc' # "tgz") =>
            \/ pc' = "tgz_returned" /\ tar_file_path' = DownloadedPath
                 /\ result'.kind = "none"
            \/ pc' = "tgz_returned" /\ tar_file_path' = "None"
                 /\ attempts' = retries /\ result'.kind = "none"
            \/ result'.kind = "raise" /\ result'.exc \notin RetriedKinds]_vars
    /\ [][result.kind = "raise" => attempts' = attempts]_vars

C10_Witness ==
    /\ call = "_unite_get_tgz"
    /\ pc = "done"
    /\ result = Raise("ConnectionError", "")
    /\ retries = 2
    /\ attempts = 1
    /\ tar_file_path = ""
====
